---- MODULE Spec2Model ----
(***************************************************************************)
(* The rain-contingency session state machine of src/main.py together with  *)
(* the selection applier of src/rain_change_proposal.py.                    *)
(*                                                                          *)
(* Spec      : requests are served one at a time; every /rain/* handler is  *)
(*             one action (the whole handler).                              *)
(* ConcSpec  : two request threads; apply-choice and llm-apply are split at *)
(*             the points where the handler releases _SESSION_LOCK.         *)
(* CollectSpec, ProposalSpec, ApplySpec : one call of the candidate         *)
(*             collector, of the proposal pipeline of rain_check, and of    *)
(*             the selection applier, on arguments drawn by the initial     *)
(*             state.                                                       *)
(*                                                                          *)
(* An itinerary item is modelled by the two fields the session logic reads  *)
(* and writes, index and title.  A plan is a dict with "itinerary" and      *)
(* "totals".  Python object identity matters in one place only: the         *)
(* renumbering loop of apply_user_choices writes item["index"] on item      *)
(* dicts that the input plan and the returned plan share.                   *)
(***************************************************************************)
EXTENDS Integers, Sequences, FiniteSets, TLC

VARIABLES
    store,      \* _SESSION_STORE: session id -> session dict (main.py:26)
    pid,        \* identity of the object held in store[s]["plan"]
    req,        \* per thread: the request being served and its locals
    last,       \* observation: the last completed request and its response
    first_plan, \* observation: the itinerary submitted by the check that created s
    undo,       \* observation: per session, the plans held when each apply-choice
                \* of the current run of apply-choice/rollback calls arrived
    since_reset, \* observation: per session, no check was made since the last reset
    nreq,       \* ConcSpec only: requests accepted so far
    fn          \* CollectSpec, ProposalSpec, ApplySpec: one call of a function of
                \* rain_change_proposal.py, its arguments and its results

vars == <<store, pid, req, last, first_plan, undo, since_reset, nreq, fn>>
obs == <<last, first_plan, undo, since_reset>>

----------------------------------------------------------------------------
(* Bounds of the model *)

MaxItems == 2       \* longest submitted itinerary
MaxIndex == 2       \* submitted index values range over 1..MaxIndex
MaxAlts == 1        \* longest alternatives list the directory yields (top_k)
MaxHistory == 2     \* history is unbounded in the code; applies stop here
MaxSel == 2         \* most selections the oracle returns in one answer
MaxSessions == 1    \* most sessions the table holds (it is unbounded in the code)
MaxConcRequests == 4 \* ConcSpec: requests that change state, over a whole run

SessionIds == {"s1", "s2"}
\* session ids are opaque to the handlers: new sessions take them in this order
SessionOrder == <<"s1", "s2">>
Workers == {"w1", "w2"}
AltTitles == {"a1", "a2"}

\* the title of the item submitted at display position i
ItemTitle(i) == <<"t1", "t2", "t3", "t4">>[i]

\* request arguments candidate_index / alternative_index
ArgRange == (0 - MaxAlts - 1) .. (MaxAlts + 1)

----------------------------------------------------------------------------
(* Values *)

None == [none |-> TRUE]

SeqsUpTo(S, n) == UNION { [1..k -> S] : k \in 0..n }

\* itineraries a client may submit: any index values, at least one item
Itineraries ==
    UNION { { [i \in 1..k |-> [index |-> ix[i], title |-> ItemTitle(i)]] :
                ix \in [1..k -> 1..MaxIndex] } : k \in 1..MaxItems }

Plans == { [itinerary |-> it, totals |-> "T"] : it \in Itineraries }

AltLists == SeqsUpTo({ [title |-> t] : t \in AltTitles }, MaxAlts)

\* the members of seq at the positions in P, in order
Pick(seq, P) ==
    LET idx == SelectSeq([i \in 1..Len(seq) |-> i], LAMBDA i : i \in P)
    IN  [k \in 1..Len(idx) |-> seq[idx[k]]]

Front(s) == SubSeq(s, 1, Len(s) - 1)
Last(s) == s[Len(s)]

\* Python list indexing with a possibly negative index: position (1-based)
PyPos(i, n) == IF i >= 0 THEN i + 1 ELSE n + i + 1
PyInRange(i, n) == (0 - n) <= i /\ i < n

----------------------------------------------------------------------------
(* Proposal builder, as far as the session logic depends on it *)

\* `sess.get("proposal") or {}` followed by `.get("candidates") or []`
CandidatesOf(proposal) == IF proposal = None THEN <<>> ELSE proposal.candidates

\* next((it for it in itinerary if it.get("index") == idx), None)
FirstWithIndex(it, idx) ==
    it[CHOOSE i \in 1..Len(it) :
          it[i].index = idx /\ \A j \in 1..(i - 1) : it[j].index # idx]

\* The loop of build_rain_change_proposal over the collector's candidates.
\* flagged: the display positions the collector flagged and whose center
\* resolved (never position 1: the first item is protected); alts[i]: what
\* fetch_indoor_alternatives returned for the candidate at position i.
BuildProposal(plan, flagged, alts) ==
    LET it == plan.itinerary
        F[i \in 0..Len(it)] ==
            IF i = 0 THEN <<>>
            ELSE IF i \in flagged
                 THEN Append(F[i - 1],
                             [index |-> it[i].index,
                              original |-> FirstWithIndex(it, it[i].index).title,
                              alternatives |-> alts[i]])
                 ELSE F[i - 1]
    IN  [candidates |-> F[Len(it)]]

\* every proposal rain_check can build for a plan on a rainy day
Proposals(plan) ==
    { BuildProposal(plan, flagged, alts) :
        flagged \in SUBSET (2..Len(plan.itinerary)),
        alts \in [2..MaxItems -> AltLists] }

----------------------------------------------------------------------------
(* Selection applier: apply_user_choices *)

\* {c["index"]: c["choice"] for c in choices}: the last entry for a key wins
HasKey(seq, idx) == \E k \in 1..Len(seq) : seq[k].index = idx
LastFor(seq, idx) ==
    seq[CHOOSE k \in 1..Len(seq) :
          seq[k].index = idx /\ \A j \in (k + 1)..Len(seq) : seq[j].index # idx]

\* whether the loop body replaces this item
IsReplaced(item, proposal, choices) ==
    LET cands == CandidatesOf(proposal) IN
    /\ HasKey(choices, item.index)
    /\ HasKey(cands, item.index)
    /\ LET choice == LastFor(choices, item.index).choice
           alts == LastFor(cands, item.index).alternatives
       IN  choice >= 0 /\ choice < Len(alts)

\* Python's None where a text or a number is expected (None above stands
\* where a dict is expected: TLC compares values of one kind only)
Null == "null"

\* d.get(k) and d.get(k, dflt) of a dict, for the scalar fields of an item
Get(d, k) == IF k \in DOMAIN d THEN d[k] ELSE Null
GetOr(d, k, dflt) == IF k \in DOMAIN d THEN d[k] ELSE dflt

\* {**a, **b}
Merge(a, b) == [k \in DOMAIN a \cup DOMAIN b |-> IF k \in DOMAIN b THEN b[k] ELSE a[k]]

\* the description f"... {alt.get('address')}" written by apply_user_choices
RainNote(address) == [note |-> "rain_alternative", address |-> address]

\* A faulty variant of the replacement that takes the alternative's type
\* whatever the item's type is.
ReplacedByAlternativeType(item, alt) ==
    Merge(item,
          [type |-> GetOr(alt, "type", "place"),
           title |-> Get(alt, "title"),
           description |-> RainNote(Get(alt, "address")),
           place_id |-> Get(alt, "place_id"),
           lat |-> Get(alt, "lat"),
           lng |-> Get(alt, "lng"),
           rating |-> Get(alt, "rating")])

\* the dict that replaces item when alternative alt is chosen
ReplacedBy(item, alt) ==
    Merge(item,
          [type |-> IF Get(item, "type") \notin {"cafe", "restaurant"}
                    THEN GetOr(alt, "type", "place") ELSE Get(item, "type"),
           title |-> Get(alt, "title"),
           description |-> RainNote(Get(alt, "address")),
           place_id |-> Get(alt, "place_id"),
           lat |-> Get(alt, "lat"),
           lng |-> Get(alt, "lng"),
           rating |-> Get(alt, "rating")])

\* replaced = {**item, "type": ..., "title": alt.get("title"), ...}
ReplacedItem(item, proposal, choices) ==
    LET choice == LastFor(choices, item.index).choice
        alts == LastFor(CandidatesOf(proposal), item.index).alternatives
    IN  ReplacedBy(item, alts[choice + 1])

\* A faulty variant of the renumbering that leaves the index values alone.
RenumberNot(it) == it

\* A faulty variant of the renumbering that counts from 0.
RenumberFromZero(it) == [i \in 1..Len(it) |-> [it[i] EXCEPT !.index = i - 1]]

\* for i, it in enumerate(new_plan["itinerary"], start=1): it["index"] = i
Renumber(it) == [i \in 1..Len(it) |-> [it[i] EXCEPT !.index = i]]

\* A faulty variant of apply_user_choices that starts the new plan without
\* the totals of the old one.
ApplyUserChoicesNoTotals(plan, proposal, choices) ==
    LET it == plan.itinerary
        merged == [i \in 1..Len(it) |->
                     IF IsReplaced(it[i], proposal, choices)
                     THEN ReplacedItem(it[i], proposal, choices)
                     ELSE it[i]]
    IN  [itinerary |-> Renumber(merged), totals |-> "none"]

\* the plan apply_user_choices returns
ApplyUserChoices(plan, proposal, choices) ==
    LET it == plan.itinerary
        merged == [i \in 1..Len(it) |->
                     IF IsReplaced(it[i], proposal, choices)
                     THEN ReplacedItem(it[i], proposal, choices)
                     ELSE it[i]]
    IN  [itinerary |-> Renumber(merged), totals |-> plan.totals]

\* the input plan object after the call: an item that was not replaced is
\* appended to the new itinerary as the same dict, so the renumbering loop
\* writes its index in the input plan too; a replaced item is a new dict and
\* the input keeps the old one unchanged
PlanAfterApply(plan, proposal, choices) ==
    LET it == plan.itinerary IN
    [plan EXCEPT !.itinerary =
        [i \in 1..Len(it) |->
            IF IsReplaced(it[i], proposal, choices)
            THEN it[i]
            ELSE [it[i] EXCEPT !.index = i]]]

----------------------------------------------------------------------------
(* Session table *)

Idle == [pc |-> "idle"]

Exists(s) == s \in DOMAIN store

\* d[k] = v for a new or an existing key
Put(d, k, v) == [x \in DOMAIN d \cup {k} |-> IF x = k THEN v ELSE d[x]]

\* An identity for a plan object newly bound to store[s]["plan"]: one that no
\* request thread still holds for this session
Busy(s) == { w \in Workers : req[w].pc # "idle" /\ req[w].sid = s }
HeldPids(s, but) == { req[w].pobj : w \in Busy(s) \ {but} }
FreshPidBut(s, but) ==
    CHOOSE i \in 0..Cardinality(Workers) :
        i \notin HeldPids(s, but) /\ \A j \in 0..(i - 1) : j \in HeldPids(s, but)
FreshPid(s) == FreshPidBut(s, "")

\* the response of a finished request
\* before: for an apply or a reset that was answered "ok", the plan the
\* session held when the request arrived; None otherwise
Respond(op, s, status, before) ==
    last' = [op |-> op, sid |-> s, status |-> status, before |-> before]

\* A faulty variant of the block below in which the membership test is not
\* one unit with the write: a check that finds the session absent while
\* another is creating it creates it again.
CheckRecordCreatesAgain(st, s, plan, proposal) ==
    Put(st, s, [plan |-> plan, proposal |-> proposal,
                original_plan |-> plan, history |-> <<>>])

\* A faulty variant of the block below that keeps one proposal for the whole
\* table: recording a check overwrites the proposal of every session.
CheckRecordSharedProposal(st, s, plan, proposal) ==
    LET recorded == IF s \notin DOMAIN st
                    THEN Put(st, s, [plan |-> plan, proposal |-> proposal,
                                     original_plan |-> plan, history |-> <<>>])
                    ELSE [st EXCEPT ![s].plan = plan, ![s].proposal = proposal]
    IN  [x \in DOMAIN recorded |-> [recorded[x] EXCEPT !.proposal = proposal]]

\* Faulty variants of the block below, used to test that the properties
\* notice them: one refreshes original_plan on every check, the other leaves
\* the plan of an existing session alone.
CheckRecordRefreshOriginal(st, s, plan, proposal) ==
    IF s \notin DOMAIN st
    THEN Put(st, s, [plan |-> plan, proposal |-> proposal,
                     original_plan |-> plan, history |-> <<>>])
    ELSE [st EXCEPT ![s].plan = plan, ![s].proposal = proposal,
                    ![s].original_plan = plan]
CheckRecordKeepPlan(st, s, plan, proposal) ==
    IF s \notin DOMAIN st
    THEN Put(st, s, [plan |-> plan, proposal |-> proposal,
                     original_plan |-> plan, history |-> <<>>])
    ELSE [st EXCEPT ![s].proposal = proposal]

\* A faulty variant of the block below in which a check on an existing
\* session starts a fresh undo history.
CheckRecordClearsHistory(st, s, plan, proposal) ==
    IF s \notin DOMAIN st
    THEN Put(st, s, [plan |-> plan, proposal |-> proposal,
                     original_plan |-> plan, history |-> <<>>])
    ELSE [st EXCEPT ![s].plan = plan, ![s].proposal = proposal,
                    ![s].history = <<>>]

\* rain_check, the block under _SESSION_LOCK (both the no-rain and the rain path)
CheckRecord(st, s, plan, proposal) ==
    IF s \notin DOMAIN st
    THEN Put(st, s, [plan |-> plan, proposal |-> proposal,
                     original_plan |-> plan, history |-> <<>>])
    ELSE [st EXCEPT ![s].plan = plan, ![s].proposal = proposal]

\* rain_rollback: previous_plan = history.pop(); sess["plan"] = previous_plan
RollbackSession(sess) ==
    [sess EXCEPT !.plan = Last(sess.history), !.history = Front(sess.history)]

\* Faulty variants of rain_reset: one restores the oldest history entry
\* instead of original_plan, the other forgets to clear the proposal.
ResetSessionToOldest(sess) ==
    [sess EXCEPT !.plan = IF sess.history = <<>> THEN sess.plan ELSE sess.history[1],
                 !.history = <<>>, !.proposal = None]
ResetSessionKeepProposal(sess) ==
    [sess EXCEPT !.plan = sess.original_plan, !.history = <<>>]

\* rain_reset
ResetSession(sess) ==
    [sess EXCEPT !.plan = sess.original_plan, !.history = <<>>, !.proposal = None]

\* rain_apply_choice, the checks between the lookup and apply_user_choices:
\* candidates[candidate_index] with a negative index counts from the end and
\* raises IndexError (answered 500) only below -len
ApplyChoiceCheck(proposal, ci, ai) ==
    LET cands == CandidatesOf(proposal) IN
    IF ci >= Len(cands) THEN "400_candidate_index"
    ELSE IF ~PyInRange(ci, Len(cands)) THEN "500"
    ELSE IF ai >= Len(cands[PyPos(ci, Len(cands))].alternatives)
         THEN "400_alternative_index"
         ELSE "pass"

\* choices = [{"index": candidate.get("index"), "choice": alternative_index}]
ApplyChoiceChoices(proposal, ci, ai) ==
    LET cands == CandidatesOf(proposal) IN
    << [index |-> cands[PyPos(ci, Len(cands))].index, choice |-> ai] >>

\* the response dict reads alternatives[alternative_index] after the session
\* has been updated
ApplyChoiceResponse(proposal, ci, ai) ==
    LET cands == CandidatesOf(proposal)
        alts == cands[PyPos(ci, Len(cands))].alternatives
    IN  IF PyInRange(ai, Len(alts)) THEN "ok" ELSE "500"

\* the block under _SESSION_LOCK that ends rain_apply_choice and rain_llm_apply:
\* sess["history"].append(copy.deepcopy(sess["plan"])) when push, then
\* sess["plan"] = new_plan
InstallPlan(sess, new_plan, push) ==
    [sess EXCEPT !.history = IF push THEN Append(sess.history, sess.plan)
                                     ELSE sess.history,
                 !.plan = new_plan]

\* rain_llm_apply: the selections the oracle may return for these candidates
\* (decide_alternatives_with_llm keeps only pairs that are in range)
ValidPairs(cands) ==
    { pr \in [candidate_index : 0..(Len(cands) - 1),
              alternative_index : 0..(MaxAlts - 1)] :
        pr.alternative_index < Len(cands[pr.candidate_index + 1].alternatives) }
Selections(cands) == SeqsUpTo(ValidPairs(cands), MaxSel)

\* rain_llm_apply: the loop turning selections into choices
LlmChoices(cands, sels) ==
    LET F[k \in 0..Len(sels)] ==
          IF k = 0 THEN <<>>
          ELSE LET c == sels[k].candidate_index
                   a == sels[k].alternative_index
               IN  IF c < Len(cands) /\ a < Len(cands[c + 1].alternatives)
                   THEN Append(F[k - 1], [index |-> cands[c + 1].index, choice |-> a])
                   ELSE F[k - 1]
    IN  F[Len(sels)]

----------------------------------------------------------------------------
(* The handlers, one request at a time *)

\* the process after start-up: _SESSION_STORE = {} and no request in progress
NoSessions ==
    /\ store = <<>>
    /\ pid = <<>>
    /\ req = [w \in Workers |-> Idle]
    /\ last = [op |-> "none", sid |-> "", status |-> "", before |-> None]
    /\ first_plan = <<>>
    /\ undo = <<>>
    /\ since_reset = <<>>
    /\ nreq = 0

Init ==
    /\ NoSessions
    /\ fn = None

\* POST /rain/check with a session id: proposal is None when no date is rainy
RainCheck(s, plan, proposal) ==
    /\ \/ Exists(s)
       \/ /\ Cardinality(DOMAIN store) < MaxSessions
          /\ s = SessionOrder[Cardinality(DOMAIN store) + 1]
    /\ store' = CheckRecord(store, s, plan, proposal)
    /\ pid' = Put(pid, s, FreshPid(s))
    /\ first_plan' = IF Exists(s) THEN first_plan ELSE Put(first_plan, s, plan)
    /\ undo' = Put(undo, s, <<>>)
    /\ since_reset' = Put(since_reset, s, FALSE)
    /\ Respond("check", s, "ok", None)
    /\ UNCHANGED <<req, nreq, fn>>

\* POST /rain/apply-choice
RainApplyChoice(s, ci, ai) ==
    /\ UNCHANGED <<req, nreq, fn>>
    /\ IF ~Exists(s)
       THEN /\ Respond("apply_choice", s, "404", None)
            /\ UNCHANGED <<store, pid, first_plan, undo, since_reset>>
       ELSE LET sess == store[s]
                chk == ApplyChoiceCheck(sess.proposal, ci, ai)
            IN  IF chk # "pass"
                THEN /\ Respond("apply_choice", s, chk, None)
                     /\ UNCHANGED <<store, pid, first_plan, undo, since_reset>>
                ELSE LET choices == ApplyChoiceChoices(sess.proposal, ci, ai)
                         new_plan == ApplyUserChoices(sess.plan, sess.proposal, choices)
                         mutated == PlanAfterApply(sess.plan, sess.proposal, choices)
                     IN  /\ Len(sess.history) < MaxHistory
                         /\ store' = [store EXCEPT ![s] =
                                InstallPlan([sess EXCEPT !.plan = mutated], new_plan, TRUE)]
                         /\ pid' = [pid EXCEPT ![s] = FreshPid(s)]
                         /\ LET status == ApplyChoiceResponse(sess.proposal, ci, ai)
                            IN  Respond("apply_choice", s, status,
                                        IF status = "ok" THEN sess.plan ELSE None)
                         /\ undo' = [undo EXCEPT ![s] =
                                IF ApplyChoiceResponse(sess.proposal, ci, ai) = "ok"
                                THEN Append(@, sess.plan) ELSE <<>>]
                         /\ UNCHANGED <<first_plan, since_reset>>

\* POST /rain/llm-apply; sels is the oracle's answer, key_set whether
\* OPENAI_API_KEY is configured (decide_alternatives_with_llm raises otherwise)
RainLlmApply(s, sels, key_set) ==
    /\ UNCHANGED <<req, nreq, fn>>
    /\ IF ~Exists(s)
       THEN /\ Respond("llm_apply", s, "404", None)
            /\ UNCHANGED <<store, pid, first_plan, undo, since_reset>>
       ELSE LET sess == store[s]
                cands == CandidatesOf(sess.proposal)
            IN  IF cands = <<>>
                THEN /\ Respond("llm_apply", s, "ok_no_candidates", None)
                     /\ UNCHANGED <<store, pid, first_plan, undo, since_reset>>
                ELSE IF ~key_set
                THEN /\ Respond("llm_apply", s, "500", None)
                     /\ UNCHANGED <<store, pid, first_plan, undo, since_reset>>
                ELSE /\ sels \in Selections(cands)
                     /\ IF sels = <<>>
                        THEN /\ Respond("llm_apply", s, "ok_no_selection", None)
                             /\ UNCHANGED <<store, pid, first_plan, undo, since_reset>>
                        ELSE LET choices == LlmChoices(cands, sels)
                                 new_plan == ApplyUserChoices(sess.plan, sess.proposal, choices)
                                 mutated == PlanAfterApply(sess.plan, sess.proposal, choices)
                                 push == choices # <<>>
                             IN  /\ Len(sess.history) < MaxHistory
                                 /\ store' = [store EXCEPT ![s] =
                                        InstallPlan([sess EXCEPT !.plan = mutated], new_plan, push)]
                                 /\ pid' = [pid EXCEPT ![s] = FreshPid(s)]
                                 /\ Respond("llm_apply", s, "ok", sess.plan)
                                 /\ undo' = [undo EXCEPT ![s] = <<>>]
                                 /\ UNCHANGED <<first_plan, since_reset>>

\* Faulty variants of the rollback handler: one falls back to original_plan
\* when there is nothing to undo, the other answers ok for an unknown session.
RainRollbackFallback(s) ==
    /\ UNCHANGED <<req, first_plan, since_reset, nreq, fn>>
    /\ IF ~Exists(s)
       THEN /\ Respond("rollback", s, "404", None)
            /\ UNCHANGED <<store, pid, undo>>
       ELSE IF store[s].history = <<>>
       THEN /\ store' = [store EXCEPT ![s].plan = store[s].original_plan]
            /\ pid' = [pid EXCEPT ![s] = FreshPid(s)]
            /\ undo' = [undo EXCEPT ![s] = <<>>]
            /\ Respond("rollback", s, "ok", None)
       ELSE /\ store' = [store EXCEPT ![s] = RollbackSession(store[s])]
            /\ pid' = [pid EXCEPT ![s] = FreshPid(s)]
            /\ undo' = [undo EXCEPT ![s] = IF @ = <<>> THEN @ ELSE Front(@)]
            /\ Respond("rollback", s, "ok", None)
RainRollbackIgnoresUnknown(s) ==
    /\ UNCHANGED <<req, first_plan, since_reset, nreq, fn>>
    /\ IF ~Exists(s)
       THEN /\ Respond("rollback", s, "ok", None)
            /\ UNCHANGED <<store, pid, undo>>
       ELSE IF store[s].history = <<>>
       THEN /\ Respond("rollback", s, "400_no_history", None)
            /\ UNCHANGED <<store, pid, undo>>
       ELSE /\ store' = [store EXCEPT ![s] = RollbackSession(store[s])]
            /\ pid' = [pid EXCEPT ![s] = FreshPid(s)]
            /\ undo' = [undo EXCEPT ![s] = IF @ = <<>> THEN @ ELSE Front(@)]
            /\ Respond("rollback", s, "ok", None)

\* POST /rain/rollback
RainRollback(s) ==
    /\ UNCHANGED <<req, first_plan, since_reset, nreq, fn>>
    /\ IF ~Exists(s)
       THEN /\ Respond("rollback", s, "404", None)
            /\ UNCHANGED <<store, pid, undo>>
       ELSE IF store[s].history = <<>>
       THEN /\ Respond("rollback", s, "400_no_history", None)
            /\ UNCHANGED <<store, pid, undo>>
       ELSE /\ store' = [store EXCEPT ![s] = RollbackSession(store[s])]
            /\ pid' = [pid EXCEPT ![s] = FreshPid(s)]
            /\ undo' = [undo EXCEPT ![s] = IF @ = <<>> THEN @ ELSE Front(@)]
            /\ Respond("rollback", s, "ok", None)

\* POST /rain/reset
RainReset(s) ==
    /\ UNCHANGED <<req, first_plan, nreq, fn>>
    /\ IF ~Exists(s)
       THEN /\ Respond("reset", s, "404", None)
            /\ UNCHANGED <<store, pid, undo, since_reset>>
       ELSE /\ store' = [store EXCEPT ![s] = ResetSession(store[s])]
            /\ pid' = [pid EXCEPT ![s] = FreshPid(s)]
            /\ undo' = [undo EXCEPT ![s] = <<>>]
            /\ since_reset' = [since_reset EXCEPT ![s] = TRUE]
            /\ Respond("reset", s, "ok", store[s].plan)

Next ==
    \/ \E s \in SessionIds, plan \in Plans :
          \E proposal \in {None} \cup Proposals(plan) : RainCheck(s, plan, proposal)
    \/ \E s \in SessionIds, ci \in ArgRange, ai \in ArgRange : RainApplyChoice(s, ci, ai)
    \/ \E s \in SessionIds, sels \in SeqsUpTo([candidate_index : 0..(MaxItems - 1),
                                               alternative_index : 0..(MaxAlts - 1)], MaxSel),
          key_set \in BOOLEAN : RainLlmApply(s, sels, key_set)
    \/ \E s \in SessionIds : RainRollback(s)
    \/ \E s \in SessionIds : RainReset(s)

Spec == Init /\ [][Next]_vars

----------------------------------------------------------------------------
(* The handlers under concurrent requests.  rain_check builds its proposal  *)
(* from the request body alone and records it under _SESSION_LOCK;          *)
(* rain_rollback and rain_reset run wholly under the lock: these three stay *)
(* single actions.  rain_apply_choice and rain_llm_apply hold the lock only *)
(* for the lookup and for the final update; apply_user_choices runs between *)
(* the two without it, on the plan object the lookup returned.  A request   *)
(* that is answered with an error before it changes anything is a           *)
(* stuttering step here; ConcSpec leaves the observation variables alone.   *)

Accept == nreq < MaxConcRequests /\ nreq' = nreq + 1 /\ UNCHANGED fn

\* req after a request other than apply-choice changed session s: the threads
\* serving s note it in `alone` (an observation, read by no handler)
Disturb(s) ==
    [v \in Workers |-> IF v \in Busy(s) THEN [req[v] EXCEPT !.alone = FALSE] ELSE req[v]]

\* req after a check or a reset replaced the plan and the proposal of session
\* s: the threads serving s note that too, in `replaced`
DisturbReplacing(s) ==
    [v \in Workers |-> IF v \in Busy(s)
                       THEN [req[v] EXCEPT !.alone = FALSE, !.replaced = TRUE]
                       ELSE req[v]]

ConcCheck(s, plan, proposal) ==
    /\ Accept
    /\ \/ Exists(s)
       \/ /\ Cardinality(DOMAIN store) < MaxSessions
          /\ s = SessionOrder[Cardinality(DOMAIN store) + 1]
    /\ store' = CheckRecord(store, s, plan, proposal)
    /\ pid' = Put(pid, s, FreshPid(s))
    /\ req' = DisturbReplacing(s)
    /\ UNCHANGED obs

ConcRollback(s) ==
    /\ Accept
    /\ Exists(s)
    /\ store[s].history # <<>>
    /\ store' = [store EXCEPT ![s] = RollbackSession(store[s])]
    /\ pid' = [pid EXCEPT ![s] = FreshPid(s)]
    /\ req' = Disturb(s)
    /\ UNCHANGED obs

ConcReset(s) ==
    /\ Accept
    /\ Exists(s)
    /\ store' = [store EXCEPT ![s] = ResetSession(store[s])]
    /\ pid' = [pid EXCEPT ![s] = FreshPid(s)]
    /\ req' = DisturbReplacing(s)
    /\ UNCHANGED obs

\* rain_apply_choice up to the call of apply_user_choices
BeginApplyChoice(w, s, ci, ai) ==
    /\ Accept
    /\ req[w].pc = "idle"
    /\ Exists(s)
    /\ ApplyChoiceCheck(store[s].proposal, ci, ai) = "pass"
    /\ Len(store[s].history) + Cardinality(Busy(s)) < MaxHistory
    /\ req' = [req EXCEPT ![w] =
          [pc |-> "read", op |-> "apply_choice", sid |-> s,
           pobj |-> pid[s], lplan |-> store[s].plan, src |-> store[s].plan,
           proposal |-> store[s].proposal,
           choices |-> ApplyChoiceChoices(store[s].proposal, ci, ai),
           push |-> TRUE, new_plan |-> None, alone |-> TRUE, replaced |-> FALSE]]
    /\ UNCHANGED <<store, pid, obs>>

\* rain_llm_apply up to the call of apply_user_choices
BeginLlmApply(w, s, sels) ==
    /\ Accept
    /\ req[w].pc = "idle"
    /\ Exists(s)
    /\ sels \in Selections(CandidatesOf(store[s].proposal))
    /\ sels # <<>>
    /\ Len(store[s].history) + Cardinality(Busy(s)) < MaxHistory
    /\ LET choices == LlmChoices(CandidatesOf(store[s].proposal), sels) IN
       req' = [req EXCEPT ![w] =
          [pc |-> "read", op |-> "llm_apply", sid |-> s,
           pobj |-> pid[s], lplan |-> store[s].plan, src |-> store[s].plan,
           proposal |-> store[s].proposal,
           choices |-> choices, push |-> choices # <<>>, new_plan |-> None,
           alone |-> TRUE, replaced |-> FALSE]]
    /\ UNCHANGED <<store, pid, obs>>

\* new_plan = apply_user_choices(plan, proposal, choices), outside the lock.
\* lplan is the current value of the plan object the thread holds; the call
\* renumbers that object in place, which every holder of the object sees
\* (the session, while store[s]["plan"] is still that object, and any other
\* thread that looked it up).  src keeps the value the call read.
ComputeNewPlan(w) ==
    /\ req[w].pc = "read"
    /\ LET r == req[w]
           s == r.sid
           mutated == PlanAfterApply(r.lplan, r.proposal, r.choices)
       IN  /\ req' = [v \in Workers |->
                       IF v = w
                       THEN [r EXCEPT !.pc = "computed", !.src = r.lplan, !.lplan = mutated,
                                      !.new_plan = ApplyUserChoices(r.lplan, r.proposal, r.choices)]
                       ELSE IF v \in Busy(s) /\ req[v].pobj = r.pobj
                            THEN [req[v] EXCEPT !.lplan = mutated]
                            ELSE req[v]]
           /\ store' = IF pid[s] = r.pobj
                       THEN [store EXCEPT ![s].plan = mutated]
                       ELSE store
    /\ UNCHANGED <<pid, obs, nreq, fn>>

\* the final block under _SESSION_LOCK
InstallNewPlan(w) ==
    /\ req[w].pc = "computed"
    /\ LET r == req[w]
           s == r.sid
       IN  /\ store' = [store EXCEPT ![s] = InstallPlan(store[s], r.new_plan, r.push)]
           /\ pid' = [pid EXCEPT ![s] = FreshPidBut(s, w)]
    /\ req' = [IF req[w].op = "apply_choice" THEN req ELSE Disturb(req[w].sid)
                 EXCEPT ![w] = Idle]
    /\ UNCHANGED <<obs, nreq, fn>>

ConcNext ==
    \/ \E s \in SessionIds, plan \in Plans :
          \E proposal \in {None} \cup Proposals(plan) : ConcCheck(s, plan, proposal)
    \/ \E w \in Workers, s \in SessionIds, ci \in ArgRange, ai \in ArgRange :
          BeginApplyChoice(w, s, ci, ai)
    \/ \E w \in Workers, s \in SessionIds,
          sels \in SeqsUpTo([candidate_index : 0..(MaxItems - 1),
                             alternative_index : 0..(MaxAlts - 1)], MaxSel) :
          BeginLlmApply(w, s, sels)
    \/ \E w \in Workers : ComputeNewPlan(w)
    \/ \E w \in Workers : InstallNewPlan(w)
    \/ \E s \in SessionIds : ConcRollback(s)
    \/ \E s \in SessionIds : ConcReset(s)

ConcSpec == Init /\ [][ConcNext]_vars

----------------------------------------------------------------------------
(* Candidate collector: collect_rain_change_candidates and its helpers.     *)
(* Texts are drawn from a small universe; what the code computes from a     *)
(* text (lower-casing, the keywords found in it, the date it parses to) is  *)
(* tabulated over that universe.                                            *)

session_vars == <<store, pid, req, last, first_plan, undo, since_reset, nreq>>

PROTECT_TYPES == {"festival", "parking", "cafe", "restaurant"}

CollectTitles == {"t1", "museum", "pavilion"}
CollectDescriptions == {"", "by the park"}
CollectTypes == {"place", "Cafe "}
CollectStartTimes == {Null, "2025-07-01T10:00:00", "2025-07-01T20:00:00Z"}
RainyDateSets == {{}, {"2025-07-01"}, {"2025-07-02"}}
PlaceIds == {"p1"}

\* _lc: (s or "").strip().lower()
Lc(s) == CASE s = Null -> ""
           [] s = "Cafe " -> "cafe"
           [] OTHER -> s

\* _parse_kst_date: the calendar date in KST (UTC+9) of an ISO timestamp; a
\* timestamp without offset is taken as KST
ParseKstDate(iso_str) ==
    CASE iso_str = Null -> Null
      [] iso_str = "2025-07-01T10:00:00" -> "2025-07-01"
      [] iso_str = "2025-07-01T20:00:00Z" -> "2025-07-02"
      [] OTHER -> Null

\* the entries of PROTECT_KWS that occur in a text (the entry for "museum" in
\* the text "museum")
ProtectKwsIn(text) ==
    CASE text = "museum" -> {"museum"}
      [] OTHER -> {}

\* whether an entry of DEFAULT_OUTDOOR_KWS or HERITAGE_OUTDOOR_KWS occurs in
\* a text (the entry for "park" in "by the park")
HasOutdoorKw(text) == text = "by the park"

\* _title_looks_heritage ("pavilion" stands for a title ending in one of
\* HERITAGE_SUFFIX_CHARS)
TitleLooksHeritage(title) == title = "pavilion"

\* A faulty variant of _is_protected that forgets the first-item rule.
IsProtectedNoFirst(item, is_first, protect_titles) ==
    LET ty == Lc(Get(item, "type"))
        hit == ProtectKwsIn(Get(item, "title")) \cup ProtectKwsIn(Get(item, "description"))
    IN  IF ty \in PROTECT_TYPES
        THEN [protected |-> TRUE, reason |-> <<"protected", "type", ty>>]
        ELSE IF hit # {}
        THEN [protected |-> TRUE, reason |-> <<"protected", "keyword", hit>>]
        ELSE IF Get(item, "title") \in protect_titles
        THEN [protected |-> TRUE, reason |-> <<"protected", "title_exact", Get(item, "title")>>]
        ELSE [protected |-> FALSE, reason |-> <<>>]

\* A faulty variant of _is_protected that tests the caller's protect set
\* before the keywords.
IsProtectedTitleFirst(item, is_first, protect_titles) ==
    LET ty == Lc(Get(item, "type"))
        hit == ProtectKwsIn(Get(item, "title")) \cup ProtectKwsIn(Get(item, "description"))
    IN  IF is_first
        THEN [protected |-> TRUE, reason |-> <<"protected", "first_item">>]
        ELSE IF ty \in PROTECT_TYPES
        THEN [protected |-> TRUE, reason |-> <<"protected", "type", ty>>]
        ELSE IF Get(item, "title") \in protect_titles
        THEN [protected |-> TRUE, reason |-> <<"protected", "title_exact", Get(item, "title")>>]
        ELSE IF hit # {}
        THEN [protected |-> TRUE, reason |-> <<"protected", "keyword", hit>>]
        ELSE [protected |-> FALSE, reason |-> <<>>]

\* _is_protected; a reason "a:b:c" is the sequence of its parts
IsProtected(item, is_first, protect_titles) ==
    LET ty == Lc(Get(item, "type"))
        hit == ProtectKwsIn(Get(item, "title")) \cup ProtectKwsIn(Get(item, "description"))
    IN  IF is_first
        THEN [protected |-> TRUE, reason |-> <<"protected", "first_item">>]
        ELSE IF ty \in PROTECT_TYPES
        THEN [protected |-> TRUE, reason |-> <<"protected", "type", ty>>]
        ELSE IF hit # {}
        THEN [protected |-> TRUE, reason |-> <<"protected", "keyword", hit>>]
        ELSE IF Get(item, "title") \in protect_titles
        THEN [protected |-> TRUE, reason |-> <<"protected", "title_exact", Get(item, "title")>>]
        ELSE [protected |-> FALSE, reason |-> <<>>]

\* The place directory as _looks_outdoor sees it: whether find_place_id
\* resolves a title to a place id, and whether the detail record of a place
\* id carries one of OUTDOOR_PLACE_TYPES.  A failing call counts as no answer.
Directories == [resolves : BOOLEAN, outdoor_type : BOOLEAN]

\* _looks_outdoor, with the number of directory calls it makes
LooksOutdoor(item, dir) ==
    LET ty == Lc(Get(item, "type"))
        title == Get(item, "title")
        own == Get(item, "place_id")
        found == IF own # Null THEN own
                 ELSE IF dir.resolves THEN "p1" ELSE Null
        calls == (IF own = Null THEN 1 ELSE 0) + (IF found # Null THEN 1 ELSE 0)
    IN  IF ty \in {"parking", "cafe", "restaurant"}
        THEN [outdoor |-> FALSE, calls |-> 0]
        ELSE IF TitleLooksHeritage(title)
        THEN [outdoor |-> TRUE, calls |-> 0]
        ELSE IF found # Null /\ dir.outdoor_type
        THEN [outdoor |-> TRUE, calls |-> calls]
        ELSE [outdoor |-> HasOutdoorKw(title) \/ HasOutdoorKw(Get(item, "description"))
                          \/ HasOutdoorKw(ty),
              calls |-> calls]

\* A faulty variant of the line below that drops "an empty rainy_dates means
\* every day".
ApplyTodayListedOnly(date, rainy_dates) == date \in rainy_dates

\* apply_today = (not rainy_dates) or (date in rainy_dates)
ApplyToday(date, rainy_dates) == rainy_dates = {} \/ date \in rainy_dates

KeptRecord(item, reason) ==
    [index |-> Get(item, "index"), title |-> Get(item, "title"), reason |-> reason]

CandidateRecord(item, date) ==
    [index |-> Get(item, "index"), title |-> Get(item, "title"), date |-> date,
     reason |-> <<"rain_outdoor_candidate">>]

\* the loop of collect_rain_change_candidates over the first n items
RECURSIVE CollectLoop(_, _, _, _, _)
CollectLoop(itinerary, dir, rainy_dates, protect_titles, n) ==
    IF n = 0 THEN [candidates |-> <<>>, kept |-> <<>>, lookups |-> 0]
    ELSE LET acc == CollectLoop(itinerary, dir, rainy_dates, protect_titles, n - 1)
             item == itinerary[n]
             date == ParseKstDate(Get(item, "start_time"))
             prot == IsProtected(item, n = 1, protect_titles)
             out == LooksOutdoor(item, dir)
         IN  IF prot.protected
             THEN [acc EXCEPT !.kept = Append(@, KeptRecord(item, prot.reason))]
             ELSE IF ~ApplyToday(date, rainy_dates)
             THEN [acc EXCEPT !.kept =
                       Append(@, KeptRecord(item, <<"kept", "not_applicable_or_indoor">>))]
             ELSE IF out.outdoor
             THEN [acc EXCEPT !.candidates = Append(@, CandidateRecord(item, date)),
                              !.lookups = @ + out.calls]
             ELSE [acc EXCEPT !.kept =
                       Append(@, KeptRecord(item, <<"kept", "not_applicable_or_indoor">>)),
                              !.lookups = @ + out.calls]

\* A faulty variant of collect_rain_change_candidates without the early
\* return for a dry day.
CollectAlwaysClassifies(itinerary, dir, is_rainy, rainy_dates, protect_titles) ==
    CollectLoop(itinerary, dir, rainy_dates, protect_titles, Len(itinerary))

\* collect_rain_change_candidates
Collect(itinerary, dir, is_rainy, rainy_dates, protect_titles) ==
    IF ~is_rainy
    THEN [candidates |-> <<>>,
          kept |-> [i \in 1..Len(itinerary) |-> KeptRecord(itinerary[i], <<"not_rainy">>)],
          lookups |-> 0]
    ELSE CollectLoop(itinerary, dir, rainy_dates, protect_titles, Len(itinerary))

\* itinerary items as the collector reads them
CollectItems ==
    [index : 1..MaxIndex, title : CollectTitles, description : CollectDescriptions,
     type : CollectTypes, start_time : CollectStartTimes, place_id : PlaceIds \cup {Null}]

CollectItineraries == UNION { [1..k -> CollectItems] : k \in 1..MaxItems }

CollectInit ==
    /\ NoSessions
    /\ fn \in [pc : {"call"}, itinerary : CollectItineraries, dir : Directories,
                is_rainy : BOOLEAN, rainy_dates : RainyDateSets,
                protect_titles : SUBSET {"t1"},
                candidates : {<<>>}, kept : {<<>>}, lookups : {0}]

\* candidates, kept = collect_rain_change_candidates(plan, places_client, ...)
CallCollect ==
    /\ fn.pc = "call"
    /\ LET r == Collect(fn.itinerary, fn.dir, fn.is_rainy, fn.rainy_dates, fn.protect_titles)
       IN  fn' = [fn EXCEPT !.pc = "done", !.candidates = r.candidates,
                            !.kept = r.kept, !.lookups = r.lookups]
    /\ UNCHANGED session_vars

CollectSpec == CollectInit /\ [][CallCollect]_vars

\* One call of _is_protected, on an item, a position flag and a protect set
\* drawn by the initial state.
ProtectInit ==
    /\ NoSessions
    /\ fn \in [pc : {"call"}, item : CollectItems, is_first : BOOLEAN,
                protect_titles : SUBSET {"t1", "museum"},
                protected : {FALSE}, reason : {<<>>}]

\* protected, reason = _is_protected(item, is_first=..., protect_titles=...)
CallIsProtected ==
    /\ fn.pc = "call"
    /\ LET r == IsProtected(fn.item, fn.is_first, fn.protect_titles)
       IN  fn' = [fn EXCEPT !.pc = "done", !.protected = r.protected, !.reason = r.reason]
    /\ UNCHANGED session_vars

ProtectSpec == ProtectInit /\ [][CallIsProtected]_vars

----------------------------------------------------------------------------
(* Alternatives: fetch_indoor_alternatives, and what rain_check does to the *)
(* proposal before it stores it.  Distances are in metres; distance_km,     *)
(* rounded to two decimals, is in hundredths of a kilometre.                *)

MaxResults == 2

ResultNames == {"t1", "a1", "a2"}
Distances == {1004, 1006}

\* summary records of search_places_nearby, over all keywords in order
SummaryRecords ==
    [name : ResultNames, located : BOOLEAN, dist : Distances, place_id : PlaceIds \cup {Null}]

\* what get_place_details returns for a place id: the name may differ from
\* the summary's, or be missing
DetailRecords ==
    {[status |-> "OK"], [status |-> "OK", name |-> "t1"], [status |-> "OK", name |-> "a2"]}

NoDetails == [status |-> "none"]

\* body.get("max_distance_km") and body.get("prune_choice_index"): absent,
\* or a number
DistanceLimits == {[given |-> FALSE, metres |-> 0], [given |-> TRUE, metres |-> 1005]}
PruneChoices == {[given |-> FALSE, ci |-> 0]} \cup {[given |-> TRUE, ci |-> c] : c \in 0..MaxResults}

\* int(body.get("top_k", 3)): any integer the client sends
TopKs == (0 - 1)..MaxResults

\* round(dist, 2), from metres to hundredths of a kilometre
Round2(metres) == (metres + 5) \div 10

\* Python's seq[:k]
PySlice(seq, k) ==
    IF k >= 0 THEN SubSeq(seq, 1, IF k < Len(seq) THEN k ELSE Len(seq))
    ELSE SubSeq(seq, 1, IF Len(seq) + k > 0 THEN Len(seq) + k ELSE 0)

\* list.sort(key=lambda x: x["distance_km"]): stable, ascending
RECURSIVE SortByDistance(_)
SortByDistance(seq) ==
    IF Len(seq) <= 1 THEN seq
    ELSE LET sorted == SortByDistance(Front(seq))
             x == Last(seq)
             before == SelectSeq(sorted, LAMBDA y : y.distance_km <= x.distance_km)
             after == SelectSeq(sorted, LAMBDA y : y.distance_km > x.distance_km)
         IN  before \o <<x>> \o after

\* the record fetch_indoor_alternatives appends for a summary record
AlternativeOf(r, details) ==
    [title |-> GetOr(details, "name", r.name),
     address |-> GetOr(details, "formatted_address", GetOr(r, "vicinity", "no-info")),
     place_id |-> r.place_id,
     lat |-> "lat", lng |-> "lng",
     rating |-> GetOr(details, "rating", Get(r, "rating")),
     type |-> "place",
     distance_km |-> Round2(r.dist)]

\* the loop of fetch_indoor_alternatives over the first n summary records
RECURSIVE FetchLoop(_, _, _, _, _)
FetchLoop(results, details, avoid_titles, limit, n) ==
    IF n = 0 THEN [all_results |-> <<>>, seen_names |-> {}]
    ELSE LET acc == FetchLoop(results, details, avoid_titles, limit, n - 1)
             r == results[n]
         IN  IF r.name \in avoid_titles \/ r.name \in acc.seen_names THEN acc
             ELSE IF ~r.located THEN acc
             ELSE IF limit.given /\ r.dist > limit.metres THEN acc
             ELSE [all_results |->
                       Append(acc.all_results,
                              AlternativeOf(r, IF r.place_id # Null THEN details ELSE NoDetails)),
                   seen_names |-> acc.seen_names \cup {r.name}]

\* fetch_indoor_alternatives
FetchIndoorAlternatives(results, details, center_ok, avoid_titles, top_k, limit) ==
    IF ~center_ok THEN <<>>
    ELSE PySlice(SortByDistance(
                     FetchLoop(results, details, avoid_titles, limit, Len(results)).all_results),
                 top_k)

\* existing_titles = {str(it.get("title", "")) for it in itinerary}
ExistingTitles(plan) == { plan.itinerary[i].title : i \in 1..Len(plan.itinerary) }

\* attach_parking_to_list: every place gains parking_candidates
AttachParking(alts) == [k \in 1..Len(alts) |-> Merge(alts[k], [parking_candidates |-> "nearest"])]

\* prune_alternatives_and_attach_parking, for one candidate
PruneAlternatives(alts, ci, parking) ==
    IF alts = <<>> THEN <<>>
    ELSE LET sel == IF ci < Len(alts) THEN alts[PyPos(ci, Len(alts))] ELSE alts[1]
         IN  <<Merge(sel, [parking_candidates |-> IF parking THEN "nearest" ELSE "none"])>>

\* rain_check from build_rain_change_proposal to the proposal it stores
CheckProposal(plan, flagged, results, details, center_ok, top_k, limit, parking, prune) ==
    LET alts == FetchIndoorAlternatives(results, details, center_ok, ExistingTitles(plan),
                                        top_k, limit)
        built == BuildProposal(plan, flagged, [i \in 2..MaxItems |-> alts]).candidates
        post(a) == LET enriched == IF parking THEN AttachParking(a) ELSE a
                   IN  IF prune.given THEN PruneAlternatives(enriched, prune.ci, parking)
                       ELSE enriched
    IN  [candidates |->
            [k \in 1..Len(built) |-> [built[k] EXCEPT !.alternatives = post(@)]]]

ProposalInit ==
    /\ NoSessions
    /\ \E plan \in Plans :
         fn \in [pc : {"call"}, plan : {plan}, flagged : SUBSET (2..Len(plan.itinerary)),
                 results : SeqsUpTo(SummaryRecords, MaxResults), details : DetailRecords,
                 center_ok : BOOLEAN, top_k : TopKs, limit : DistanceLimits,
                 parking : BOOLEAN, prune : PruneChoices, proposal : {None}]

\* rain_check on a rainy day, up to the proposal it returns
CallCheckProposal ==
    /\ fn.pc = "call"
    /\ fn' = [fn EXCEPT !.pc = "done",
                        !.proposal = CheckProposal(fn.plan, fn.flagged, fn.results, fn.details,
                                                   fn.center_ok, fn.top_k, fn.limit,
                                                   fn.parking, fn.prune)]
    /\ UNCHANGED session_vars

ProposalSpec == ProposalInit /\ [][CallCheckProposal]_vars

----------------------------------------------------------------------------
(* Proposal builder with the directory in view: the center of each          *)
(* candidate's original is resolved, a candidate without center is skipped, *)
(* and a directory call may fail.                                           *)

\* itinerary items with the fields _resolve_item_center_coords reads
LocatedItineraries ==
    UNION { { [i \in 1..k |->
                 [index |-> ix[i], title |-> ItemTitle(i), lat |-> la[i], lng |-> "lng0",
                  place_id |-> pl[i]]] :
                ix \in [1..k -> 1..MaxIndex], la \in [1..k -> {Null, "lat0"}],
                pl \in [1..k -> PlaceIds \cup {Null}] } : k \in 1..MaxItems }

\* the geocoder: whether a place id resolves, and which titles resolve
Geocoders == [by_id : BOOLEAN, by_name : SUBSET {ItemTitle(i) : i \in 1..MaxItems}]

\* body.get("center_coords"): absent, a "lat,lng" text, or some other text
FallbackCenters == {Null, "37.0,128.0", "downtown"}

\* _to_latlng_str
ToLatLngStr(lat, lng) == IF lat = Null \/ lng = Null THEN Null ELSE "lat0,lng0"

\* _resolve_item_center_coords; a geocoder call that raises counts as no
\* answer (geocode_fails)
ResolveItemCenterCoords(original, geo, geocode_fails, fallback_center) ==
    IF ToLatLngStr(Get(original, "lat"), Get(original, "lng")) # Null
    THEN ToLatLngStr(Get(original, "lat"), Get(original, "lng"))
    ELSE IF Get(original, "place_id") # Null /\ ~geocode_fails /\ geo.by_id
    THEN "37.1,128.1"
    ELSE IF Get(original, "title") # Null /\ ~geocode_fails
            /\ Get(original, "title") \in geo.by_name
    THEN "37.2,128.2"
    ELSE fallback_center

\* map(float, center_coords.split(",")) succeeds
CenterParses(center) == center # "downtown"

\* the collected positions build_rain_change_proposal does not skip: the
\* center of the first item carrying the candidate's index value resolves
BuiltPositions(plan, collected, geo, geocode_fails, fallback_center) ==
    { i \in collected :
        ResolveItemCenterCoords(FirstWithIndex(plan.itinerary, plan.itinerary[i].index),
                                geo, geocode_fails, fallback_center) # Null }

\* the collected positions for which search_places_nearby is called
SearchedPositions(plan, collected, geo, geocode_fails, fallback_center) ==
    { i \in BuiltPositions(plan, collected, geo, geocode_fails, fallback_center) :
        CenterParses(ResolveItemCenterCoords(
                         FirstWithIndex(plan.itinerary, plan.itinerary[i].index),
                         geo, geocode_fails, fallback_center)) }

\* what the directory answers to every nearby search that does not fail
NearbyResults == <<[name |-> "a1", located |-> TRUE, dist |-> 1004, place_id |-> "p1"]>>

\* build_rain_change_proposal after the collector, when no call raises
BuildWithDirectory(plan, collected, kept, geo, geocode_fails, details_fail, fallback_center) ==
    LET alts(i) ==
            FetchIndoorAlternatives(
                NearbyResults,
                IF details_fail THEN NoDetails ELSE [status |-> "OK", name |-> "a2"],
                i \in SearchedPositions(plan, collected, geo, geocode_fails, fallback_center),
                ExistingTitles(plan), 1, [given |-> FALSE, metres |-> 0])
        built == BuildProposal(plan,
                               BuiltPositions(plan, collected, geo, geocode_fails,
                                              fallback_center),
                               [i \in 2..MaxItems |-> alts(i)])
    IN  [candidates |-> built.candidates, kept |-> kept]

\* the collector's kept list for the positions it did not flag
KeptOf(plan, collected) ==
    Pick([i \in 1..Len(plan.itinerary) |->
             [index |-> plan.itinerary[i].index, title |-> plan.itinerary[i].title,
              reason |-> IF i = 1 THEN <<"protected", "first_item">>
                         ELSE <<"kept", "not_applicable_or_indoor">>]],
         (1..Len(plan.itinerary)) \ collected)

BuildInit ==
    /\ NoSessions
    /\ \E it \in LocatedItineraries :
         fn \in [pc : {"call"}, plan : {[itinerary |-> it, totals |-> "T"]},
                 collected : SUBSET (2..Len(it)), geo : Geocoders,
                 fallback_center : FallbackCenters,
                 geocode_fails : BOOLEAN, details_fail : BOOLEAN,
                 search_fails : SUBSET (2..MaxItems),
                 proposal : {None}]

\* POST /rain/check on a rainy day for session s, with the directory and the
\* collector's outcome held in fn: a nearby search that raises is not caught
\* by fetch_indoor_alternatives nor by build_rain_change_proposal, and
\* rain_check answers 500 without reaching the session table
CheckWithDirectory(s) ==
    /\ fn.pc = "call"
    /\ s = SessionOrder[1]
    /\ LET searched == SearchedPositions(fn.plan, fn.collected, fn.geo, fn.geocode_fails,
                                         fn.fallback_center)
           proposal == BuildWithDirectory(fn.plan, fn.collected, KeptOf(fn.plan, fn.collected),
                                          fn.geo, fn.geocode_fails, fn.details_fail,
                                          fn.fallback_center)
       IN  IF searched \cap fn.search_fails # {}
           THEN /\ fn' = [fn EXCEPT !.pc = "done"]
                /\ Respond("check", s, "500", None)
                /\ UNCHANGED <<store, pid, req, first_plan, undo, since_reset, nreq>>
           ELSE /\ fn' = [fn EXCEPT !.pc = "done", !.proposal = proposal]
                /\ store' = CheckRecord(store, s, fn.plan, proposal)
                /\ pid' = Put(pid, s, FreshPid(s))
                /\ first_plan' = Put(first_plan, s, fn.plan)
                /\ undo' = Put(undo, s, <<>>)
                /\ since_reset' = Put(since_reset, s, FALSE)
                /\ Respond("check", s, "ok", None)
                /\ UNCHANGED <<req, nreq>>

BuildSpec == BuildInit /\ [][\E s \in SessionIds : CheckWithDirectory(s)]_vars

----------------------------------------------------------------------------
(* Selection applier on full records: apply_user_choices called with an     *)
(* itinerary, a proposal and a choices list of any provenance               *)

ItemTypes == {"place", "cafe", "festival"}
ItemStart(i) == <<"09:00", "11:00", "13:00", "15:00">>[i]
ItemEnd(i) == <<"10:30", "12:30", "14:30", "16:30">>[i]

\* itinerary items with the fields the planner gives them
FullItineraries ==
    UNION { { [i \in 1..k |->
                 [index |-> ix[i], title |-> ItemTitle(i), type |-> ty[i],
                  start_time |-> ItemStart(i), end_time |-> ItemEnd(i),
                  description |-> [note |-> "visit", address |-> Null], place_id |-> "p0",
                  lat |-> "lat0", lng |-> "lng0"]] :
                ix \in [1..k -> 1..MaxIndex], ty \in [1..k -> ItemTypes] } : k \in 1..MaxItems }

FullPlans == { [itinerary |-> it, totals |-> "T"] : it \in FullItineraries }

\* alternatives as fetch_indoor_alternatives builds them
FullAlternatives ==
    { AlternativeOf([name |-> "a1", located |-> TRUE, dist |-> 1004, place_id |-> "p1"],
                    [status |-> "OK", rating |-> "4.5"]),
      AlternativeOf([name |-> "a2", located |-> TRUE, dist |-> 1006, place_id |-> Null],
                    NoDetails) }

\* proposals a session may hold when apply_user_choices is called: none, or
\* candidates with any index values (the plan may have been renumbered since)
FullProposals ==
    {None} \cup
    { [candidates |-> c] :
        c \in SeqsUpTo([index : 1..MaxIndex, original : {"t2"},
                         alternatives : SeqsUpTo(FullAlternatives, MaxAlts)], MaxItems) }

ChoiceLists == SeqsUpTo([index : 1..MaxIndex, choice : ArgRange], MaxSel)

ApplyInit ==
    /\ NoSessions
    /\ fn \in [pc : {"call"}, plan : FullPlans, proposal : FullProposals,
                choices : ChoiceLists, new_plan : {None}, again : {None}]

\* new_plan = apply_user_choices(plan, proposal, choices)
CallApply ==
    /\ fn.pc = "call"
    /\ fn' = [fn EXCEPT !.pc = "done",
                        !.new_plan = ApplyUserChoices(fn.plan, fn.proposal, fn.choices)]
    /\ UNCHANGED session_vars

\* apply_user_choices(new_plan, proposal, choices): the same proposal and
\* choices applied to the plan the first call returned
CallApplyAgain ==
    /\ fn.pc = "done"
    /\ fn' = [fn EXCEPT !.pc = "again",
                        !.again = ApplyUserChoices(fn.new_plan, fn.proposal, fn.choices)]
    /\ UNCHANGED session_vars

ApplySpec == ApplyInit /\ [][CallApply \/ CallApplyAgain]_vars

----------------------------------------------------------------------------
(* Two sessions served concurrently: the table after two check requests     *)
(* created sessions s1 and s2, and the requests that follow, interleaved as *)
(* in ConcSpec.                                                             *)

CrossSessionIds == {SessionOrder[1], SessionOrder[2]}

\* what a check may record for a session
CheckOutcomes ==
    { [plan |-> plan, proposal |-> proposal] :
        plan \in Plans, proposal \in {None} \cup UNION { Proposals(pl) : pl \in Plans } }

CrossInit ==
    /\ \E a, b \in CheckOutcomes :
          /\ a.proposal \in {None} \cup Proposals(a.plan)
          /\ b.proposal \in {None} \cup Proposals(b.plan)
          /\ store = CheckRecord(CheckRecord(<<>>, SessionOrder[1], a.plan, a.proposal),
                                 SessionOrder[2], b.plan, b.proposal)
    /\ pid = [s \in CrossSessionIds |-> 0]
    /\ req = [w \in Workers |-> Idle]
    /\ last = [op |-> "none", sid |-> "", status |-> "", before |-> None]
    /\ first_plan = <<>>
    /\ undo = <<>>
    /\ since_reset = <<>>
    /\ nreq = 2
    /\ fn = None

CrossNext ==
    \/ \E s \in CrossSessionIds, plan \in Plans :
          \E proposal \in {None} \cup Proposals(plan) : ConcCheck(s, plan, proposal)
    \/ \E w \in Workers, s \in CrossSessionIds, ci \in ArgRange, ai \in ArgRange :
          BeginApplyChoice(w, s, ci, ai)
    \/ \E w \in Workers, s \in CrossSessionIds,
          sels \in SeqsUpTo([candidate_index : 0..(MaxItems - 1),
                             alternative_index : 0..(MaxAlts - 1)], MaxSel) :
          BeginLlmApply(w, s, sels)
    \/ \E w \in Workers : ComputeNewPlan(w)
    \/ \E w \in Workers : InstallNewPlan(w)
    \/ \E s \in CrossSessionIds : ConcRollback(s)
    \/ \E s \in CrossSessionIds : ConcReset(s)

CrossSpec == CrossInit /\ [][CrossNext]_vars

----------------------------------------------------------------------------
(* Properties of the session state machine *)

\* the request just served, read across one step of Spec
Served(op, s) == last'.op = op /\ last'.sid = s

\* C1: an apply-choice answered ok and directly followed by a rollback on the
\* same session leaves the session's plan equal, item for item and index for
\* index, to the plan it held when the apply-choice arrived.
C1_RollbackRestoresPreApply ==
    [][ \A s \in SessionIds :
          ( /\ last.op = "apply_choice" /\ last.sid = s /\ last.status = "ok"
            /\ Served("rollback", s) /\ last'.status = "ok" )
          => store'[s].plan = last.before ]_vars

\* C2: after a reset answered ok the session's plan is the itinerary that the
\* check which created the session submitted.
C2_ResetRestoresFirstPlan ==
    (last.op = "reset" /\ last.status = "ok")
        => store[last.sid].plan = first_plan[last.sid]

\* a reset was served on a session whose plan was neither the submitted one
\* nor the one a later check recorded as current
C2_Witness ==
    /\ last.op = "reset" /\ last.status = "ok"
    /\ last.before # first_plan[last.sid]
    /\ store[last.sid].plan = first_plan[last.sid]

\* candidate_index and alternative_index select an existing alternative
SelectsAlternative(proposal, ci, ai) ==
    LET cands == CandidatesOf(proposal) IN
    /\ ci \in 0..(Len(cands) - 1)
    /\ ai \in 0..(Len(cands[ci + 1].alternatives) - 1)

\* C3: an apply-choice whose candidate_index or alternative_index is out of
\* range, negative values included, is answered with an error and leaves the
\* session's plan, history and proposal unchanged.
C3_InvalidIndicesRejected ==
    [][ \A s \in SessionIds, ci \in ArgRange, ai \in ArgRange :
          ( /\ Exists(s)
            /\ ~SelectsAlternative(store[s].proposal, ci, ai)
            /\ RainApplyChoice(s, ci, ai) )
          => (last'.status # "ok" /\ store' = store) ]_vars

\* C4: when apply-choice requests overlap on a session and nothing but
\* apply-choice requests changes the session meanwhile, the history entry a
\* request pushes as it installs its plan is the plan it computed that plan
\* from (no update is lost).
C4_NoLostUpdate ==
    [][ \A w \in Workers :
          ( /\ req[w].pc = "computed" /\ req[w].op = "apply_choice" /\ req[w].alone
            /\ req'[w].pc = "idle" )
          => Last(store'[req[w].sid].history) = req[w].lplan ]_vars

\* C5: a rollback on a session whose history is empty is answered
\* 'no history to rollback' and leaves the session table, hence the plan,
\* original_plan, proposal and history of the session, unchanged.
C5_RollbackEmptyHistoryFails ==
    [][ \A s \in SessionIds :
          (Exists(s) /\ store[s].history = <<>> /\ RainRollback(s))
          => (last'.status = "400_no_history" /\ store' = store) ]_vars

\* a rollback failed this way on an existing session that holds a proposal
\* and a plan other than its original_plan
C5_Witness ==
    /\ last.op = "rollback" /\ last.status = "400_no_history"
    /\ Exists(last.sid)
    /\ store[last.sid].proposal # None
    /\ store[last.sid].plan # store[last.sid].original_plan

\* C6: no step changes the original_plan of an existing session, and no step
\* removes a session.
C6_OriginalPlanImmutable ==
    [][ \A s \in SessionIds :
          Exists(s) => ( /\ s \in DOMAIN store'
                         /\ store'[s].original_plan = store[s].original_plan ) ]_vars

\* a later check was served on a session that has an undo history and a
\* plan other than its original_plan
C6_Witness ==
    /\ last.op = "check"
    /\ store[last.sid].history # <<>>
    /\ store[last.sid].plan # store[last.sid].original_plan
    /\ store[last.sid].original_plan = first_plan[last.sid]

\* C7: history is an undo stack: an apply-choice answered ok appends exactly
\* one entry; a rollback answered ok removes the most recent entry and
\* installs it as the plan; and the rollbacks that follow a run of
\* apply-choice calls restore, most recent first, the plans the session held
\* when those calls arrived.
C7_HistoryIsUndoStack ==
    [][ \A s \in SessionIds :
          /\ (Exists(s) /\ Served("apply_choice", s) /\ last'.status = "ok")
             => Len(store'[s].history) = Len(store[s].history) + 1
          /\ (Exists(s) /\ Served("rollback", s) /\ last'.status = "ok")
             => ( /\ store'[s].history = Front(store[s].history)
                  /\ store'[s].plan = Last(store[s].history)
                  /\ undo[s] # <<>> => store'[s].plan = Last(undo[s]) ) ]_vars

\* C8: a reset answered ok leaves the history empty and the proposal none, and
\* from then until the next check on the session every rollback is answered
\* 'no history to rollback' and every apply-choice is rejected, neither
\* changing the session table.
C8_AfterReset ==
    [][ \A s \in SessionIds :
          /\ (Served("reset", s) /\ last'.status = "ok")
             => (store'[s].history = <<>> /\ store'[s].proposal = None)
          /\ (Exists(s) /\ since_reset[s] /\ Served("rollback", s))
             => (last'.status = "400_no_history" /\ store' = store)
          /\ (Exists(s) /\ since_reset[s] /\ Served("apply_choice", s))
             => ( /\ last'.status \in {"400_candidate_index", "500"}
                  /\ store' = store ) ]_vars

\* an apply-choice was rejected on a session that was reset and not checked
\* again
C8_Witness ==
    /\ last.op = "apply_choice" /\ last.status # "ok"
    /\ Exists(last.sid)
    /\ since_reset[last.sid]

\* C9 as stated: a check on an existing session leaves its plan as it was.
C9_CheckLeavesPlan ==
    [][ \A s \in SessionIds :
          (Exists(s) /\ Served("check", s)) => store'[s].plan = store[s].plan ]_vars

\* C9, amended: a check on an existing session sets the session's proposal
\* and replaces the session's plan by the submitted itinerary; history and
\* original_plan stay as they were.
C9_CheckReplacesPlan ==
    [][ \A s \in SessionIds :
          (Exists(s) /\ Served("check", s))
          => \A plan \in Plans :
               \A proposal \in {None} \cup Proposals(plan) :
                 RainCheck(s, plan, proposal)
                 => store' = [store EXCEPT ![s].plan = plan,
                                           ![s].proposal = proposal] ]_vars

\* a check with a proposal was served on a session that has an undo history
C9_Witness ==
    /\ last.op = "check"
    /\ store[last.sid].history # <<>>
    /\ store[last.sid].proposal # None

\* C10: apply-choice, llm-apply, rollback and reset on a session id that is
\* not in the table are answered 404 and leave the table unchanged (no
\* session is created).
C10_UnknownSessionRejected ==
    [][ \A s \in SessionIds :
          ( /\ ~Exists(s)
            /\ last'.sid = s
            /\ last'.op \in {"apply_choice", "llm_apply", "rollback", "reset"} )
          => (last'.status = "404" /\ store' = store) ]_vars

\* a reset of an unknown session was refused while the table holds another
\* session
C10_Witness ==
    /\ last.op = "reset" /\ last.status = "404"
    /\ ~Exists(last.sid)
    /\ store # <<>>

\* C14: no apply-choice or llm-apply request replaces the item at position 0
\* of the session's plan, which the collector keeps as protected: its title
\* is the same after the request as before.
C14_FirstItemNeverReplaced ==
    [][ \A s \in SessionIds :
          ( /\ Exists(s)
            /\ last'.op \in {"apply_choice", "llm_apply"} /\ last'.sid = s )
          => store'[s].plan.itinerary[1].title = store[s].plan.itinerary[1].title ]_vars

----------------------------------------------------------------------------
(* Properties of the candidate collector *)

\* what a kept or candidate record says of its item
Named(recs) == [k \in 1..Len(recs) |-> <<recs[k].index, recs[k].title>>]

Collected == fn.pc = "done"

\* C11: on a rainy day the item at position 0 of the itinerary is the first
\* kept record, with reason protected:first_item, and the candidates are taken
\* from the later positions only, whatever its type, title, date, the rainy
\* dates and the directory's answers.
C11_FirstItemProtected ==
    (Collected /\ fn.is_rainy) =>
        /\ Len(fn.kept) >= 1
        /\ fn.kept[1] = [index |-> fn.itinerary[1].index, title |-> fn.itinerary[1].title,
                         reason |-> <<"protected", "first_item">>]
        /\ \E P \in SUBSET (2..Len(fn.itinerary)) :
               Named(fn.candidates) = Pick(Named(fn.itinerary), P)

\* a rainy day whose first item is an unprotected-looking outdoor place on a
\* rainy date, and whose second item is flagged
C11_Witness ==
    /\ Collected /\ fn.is_rainy
    /\ fn.itinerary[1].title = "pavilion" /\ fn.itinerary[1].type = "place"
    /\ fn.itinerary[1].start_time = "2025-07-01T10:00:00"
    /\ fn.rainy_dates = {"2025-07-01"} /\ fn.dir.outdoor_type
    /\ Len(fn.candidates) = 1

\* C12: on a dry day there is no candidate, kept has exactly one record per
\* item in display order, each with reason not_rainy, and neither the
\* classifier nor the directory is consulted.
C12_DryDayKeepsAll ==
    (Collected /\ ~fn.is_rainy) =>
        /\ fn.candidates = <<>>
        /\ Len(fn.kept) = Len(fn.itinerary)
        /\ \A i \in 1..Len(fn.itinerary) :
               fn.kept[i] = [index |-> fn.itinerary[i].index, title |-> fn.itinerary[i].title,
                             reason |-> <<"not_rainy">>]
        /\ fn.lookups = 0

\* a dry day with a second item that a rainy day would flag
C12_Witness ==
    /\ Collected /\ ~fn.is_rainy
    /\ Len(fn.itinerary) = 2
    /\ fn.itinerary[2].title = "pavilion" /\ fn.itinerary[2].type = "place"
    /\ fn.rainy_dates = {}
    /\ fn.kept[2].reason = <<"not_rainy">>

\* the positions the collector is to flag on a rainy day
RainFlagged ==
    { i \in 1..Len(fn.itinerary) :
        /\ \/ fn.rainy_dates = {}
           \/ ParseKstDate(fn.itinerary[i].start_time) \in fn.rainy_dates
        /\ ~IsProtected(fn.itinerary[i], i = 1, fn.protect_titles).protected
        /\ LooksOutdoor(fn.itinerary[i], fn.dir).outdoor }

\* C13: on a rainy day every item is in exactly one of candidates and kept;
\* it is a candidate exactly when its date is a rainy date (or no rainy date
\* is given), it is not protected and the classifier marks it outdoor.
C13_CandidateIffRainyUnprotectedOutdoor ==
    (Collected /\ fn.is_rainy) =>
        /\ Named(fn.candidates) = Pick(Named(fn.itinerary), RainFlagged)
        /\ Named(fn.kept) = Pick(Named(fn.itinerary), (1..Len(fn.itinerary)) \ RainFlagged)

\* a rainy day where the second item, starting in the evening of the day
\* before in UTC, falls on the one rainy date and is flagged
C13_Witness ==
    /\ Collected /\ fn.is_rainy
    /\ Len(fn.itinerary) = 2
    /\ fn.itinerary[2].start_time = "2025-07-01T20:00:00Z"
    /\ fn.rainy_dates = {"2025-07-02"}
    /\ Len(fn.candidates) = 1 /\ Len(fn.kept) = 1

----------------------------------------------------------------------------
(* Properties of the proposal *)

Proposed == fn.pc = "done"

\* C15: in every proposal, for every value of top_k, each candidate's
\* alternatives are in non-decreasing order of distance_km and number at most
\* top_k.
C15_AlternativesSortedAtMostTopK ==
    Proposed =>
        \A k \in 1..Len(fn.proposal.candidates) :
            LET alts == fn.proposal.candidates[k].alternatives IN
            /\ \A i \in 1..(Len(alts) - 1) : alts[i].distance_km <= alts[i + 1].distance_km
            /\ Len(alts) <= fn.top_k

\* C16: no alternative of a proposal bears the title of an item of the
\* itinerary, whatever the directory's summary and detail records say.
C16_NoAlternativeTitledAsItem ==
    Proposed =>
        \A k \in 1..Len(fn.proposal.candidates) :
            LET alts == fn.proposal.candidates[k].alternatives IN
            \A i \in 1..Len(alts) : alts[i].title \notin ExistingTitles(fn.plan)

\* C20: in every proposal the candidates' index values are pairwise distinct,
\* and the k-th candidate carries the index of the k-th flagged item and
\* records that item as its original.
C20_CandidatesAddressFlaggedItems ==
    Proposed =>
        LET cands == fn.proposal.candidates
            items == Pick(fn.plan.itinerary, fn.flagged)
        IN  /\ Len(cands) = Len(items)
            /\ \A j, k \in 1..Len(cands) : j # k => cands[j].index # cands[k].index
            /\ \A k \in 1..Len(cands) :
                   cands[k].index = items[k].index /\ cands[k].original = items[k].title

----------------------------------------------------------------------------
(* Properties of the selection applier *)

Applied == fn.pc = "done"

\* whether the choices list holds a valid choice for index value i: the
\* entry for i (the last one, if several) picks a position of the alternative
\* list of the candidate with index i (the last one, if several)
ValidChoiceFor(i) ==
    LET cands == CandidatesOf(fn.proposal) IN
    /\ \E k \in 1..Len(fn.choices) : fn.choices[k].index = i
    /\ \E k \in 1..Len(cands) : cands[k].index = i
    /\ LastFor(fn.choices, i).choice \in 0..(Len(LastFor(cands, i).alternatives) - 1)

ChosenFor(i) ==
    LastFor(CandidatesOf(fn.proposal), i).alternatives[LastFor(fn.choices, i).choice + 1]

\* the item at position p of the result is the input's, but for its index
SameButIndex(p) ==
    LET old == fn.plan.itinerary[p]
        new == fn.new_plan.itinerary[p]
    IN  /\ DOMAIN new = DOMAIN old
        /\ \A f \in DOMAIN old \ {"index"} : new[f] = old[f]

\* C17: with an empty choices list, or when every choice is -1 or outside its
\* candidate's alternative list, the applier returns the same items in the
\* same order with the same totals; only index values may differ, and they
\* are 1..N.
C17_NoValidChoiceChangesNothing ==
    (Applied /\ \A k \in 1..Len(fn.choices) : ~ValidChoiceFor(fn.choices[k].index)) =>
        /\ fn.new_plan.totals = fn.plan.totals
        /\ Len(fn.new_plan.itinerary) = Len(fn.plan.itinerary)
        /\ \A p \in 1..Len(fn.plan.itinerary) :
               SameButIndex(p) /\ fn.new_plan.itinerary[p].index = p

\* a call whose two choices, -1 and one past the end of a one-entry list,
\* address candidates of the proposal whose index values are in the plan,
\* and the plan is not numbered 1..N
C17_Witness ==
    /\ Applied
    /\ Len(fn.choices) = 2
    /\ fn.choices[1] = [index |-> 2, choice |-> 0 - 1]
    /\ fn.choices[2] = [index |-> 1, choice |-> 1]
    /\ fn.proposal # None
    /\ Len(fn.proposal.candidates) = 2
    /\ \A k \in 1..2 : fn.proposal.candidates[k].index = k
                         /\ Len(fn.proposal.candidates[k].alternatives) = 1
    /\ Len(fn.plan.itinerary) = 2
    /\ fn.plan.itinerary[1].index = 2 /\ fn.plan.itinerary[2].index = 1
    /\ fn.new_plan.itinerary[1].index = 1 /\ fn.new_plan.itinerary[1].title = "t1"

\* C18: an item whose index has a valid choice gets the title, place id,
\* coordinates and rating of the chosen alternative, keeps its start_time and
\* end_time, keeps its type if that is cafe or restaurant and has type place
\* otherwise; every other item keeps all its fields but index.
C18_ValidChoiceReplacesItem ==
    Applied =>
        /\ Len(fn.new_plan.itinerary) = Len(fn.plan.itinerary)
        /\ \A p \in 1..Len(fn.plan.itinerary) :
               LET old == fn.plan.itinerary[p]
                   new == fn.new_plan.itinerary[p]
               IN  IF ValidChoiceFor(old.index)
                   THEN LET alt == ChosenFor(old.index) IN
                        /\ new.title = alt.title /\ new.place_id = alt.place_id
                        /\ new.lat = alt.lat /\ new.lng = alt.lng
                        /\ new.rating = alt.rating
                        /\ new.start_time = old.start_time /\ new.end_time = old.end_time
                        /\ new.type = IF old.type \in {"cafe", "restaurant"}
                                      THEN old.type ELSE "place"
                   ELSE SameButIndex(p)

\* a call that replaces a cafe at position 2 and leaves position 1 alone
C18_Witness ==
    /\ Applied
    /\ Len(fn.plan.itinerary) = 2
    /\ fn.plan.itinerary[1].index = 1 /\ fn.plan.itinerary[2].index = 2
    /\ fn.plan.itinerary[2].type = "cafe"
    /\ ValidChoiceFor(2) /\ ~ValidChoiceFor(1)
    /\ fn.new_plan.itinerary[2].title = "a1" /\ fn.new_plan.itinerary[2].type = "cafe"
    /\ fn.new_plan.itinerary[1].title = "t1"

\* C19: an apply-choice or llm-apply request that is answered with the new
\* plan, or that changes the session, has installed the applier's result,
\* which has as many items as the plan it was computed from and index values
\* 1..N in display order.
C19_InstalledPlanNumbered ==
    [][ \A s \in SessionIds :
          ( /\ Exists(s)
            /\ last'.op \in {"apply_choice", "llm_apply"} /\ last'.sid = s
            /\ (last'.status = "ok" \/ store'[s] # store[s]) )
          => LET old == store[s].plan.itinerary
                 new == store'[s].plan.itinerary
             IN  /\ Len(new) = Len(old)
                 /\ \A p \in 1..Len(new) : new[p].index = p ]_vars

\* a session whose plan, submitted with index values 2, 1, was replaced by an
\* apply-choice that chose an alternative
C19_Witness ==
    /\ last.op = "apply_choice" /\ last.status = "ok"
    /\ Len(last.before.itinerary) = 2
    /\ last.before.itinerary[1].index = 2 /\ last.before.itinerary[2].index = 1
    /\ \E p \in 1..2 : store[last.sid].plan.itinerary[p].title \in AltTitles
    /\ \A p \in 1..2 : store[last.sid].plan.itinerary[p].index = p

----------------------------------------------------------------------------
(* Properties of the protection rules *)

\* C25: _is_protected reports the reason of the first rule that matches, in
\* the order first item, protected type, protected keyword, exact title; an
\* item matching a keyword and the caller's protect set gets the keyword
\* reason, and a first item gets protected:first_item whatever else matches.
C25_FirstMatchingRuleWins ==
    fn.pc = "done" =>
        LET ty == Lc(fn.item.type)
            kws == ProtectKwsIn(fn.item.title) \cup ProtectKwsIn(fn.item.description)
        IN  /\ fn.is_first =>
                   fn.protected /\ fn.reason = <<"protected", "first_item">>
            /\ (~fn.is_first /\ ty \in PROTECT_TYPES) =>
                   fn.protected /\ fn.reason = <<"protected", "type", ty>>
            /\ (~fn.is_first /\ ty \notin PROTECT_TYPES /\ kws # {}) =>
                   fn.protected /\ fn.reason = <<"protected", "keyword", kws>>
            /\ (~fn.is_first /\ ty \notin PROTECT_TYPES /\ kws = {}
                    /\ fn.item.title \in fn.protect_titles) =>
                   fn.protected /\ fn.reason = <<"protected", "title_exact", fn.item.title>>
            /\ (~fn.is_first /\ ty \notin PROTECT_TYPES /\ kws = {}
                    /\ fn.item.title \notin fn.protect_titles) =>
                   ~fn.protected

\* a later item whose title holds a protected keyword and is in the caller's
\* protect set, reported with the keyword reason
C25_Witness ==
    /\ fn.pc = "done" /\ ~fn.is_first
    /\ fn.item.type = "place" /\ fn.item.title = "museum"
    /\ "museum" \in fn.protect_titles
    /\ fn.reason = <<"protected", "keyword", {"museum"}>>

----------------------------------------------------------------------------
(* Properties of the proposal builder *)

\* whether the center of the item at position i resolves by its own
\* coordinates, its place id, its title or the fallback center
CenterResolves(i) ==
    LET item == fn.plan.itinerary[i] IN
    \/ item.lat # Null /\ item.lng # Null
    \/ item.place_id # Null /\ ~fn.geocode_fails /\ fn.geo.by_id
    \/ ~fn.geocode_fails /\ item.title \in fn.geo.by_name
    \/ fn.fallback_center # Null

\* C21: the proposal's candidates are, in display order, the collected
\* candidates whose center resolves, each under its own index, and its kept
\* list is the collector's.
C21_OnlyUnresolvableOmitted ==
    (fn.pc = "done" /\ last.status = "ok") =>
        LET shown == Pick(fn.plan.itinerary, { i \in fn.collected : CenterResolves(i) })
            cands == fn.proposal.candidates
        IN  /\ Len(cands) = Len(shown)
            /\ \A k \in 1..Len(cands) :
                   cands[k].index = shown[k].index
            /\ fn.proposal.kept = KeptOf(fn.plan, fn.collected)

\* C22: a directory call that fails for one candidate or venue does not abort
\* the rain check: the request is answered with a proposal and the proposal
\* is stored in the session.
C22_DirectoryFailureDoesNotAbort ==
    fn.pc = "done" =>
        /\ last.status = "ok"
        /\ Exists(last.sid)
        /\ store[last.sid].proposal = fn.proposal /\ fn.proposal # None

----------------------------------------------------------------------------
(* Properties of concurrent sessions *)

\* a step of a request that addresses session s: a check, rollback or reset
\* of s, or a step of a worker whose apply-choice or llm-apply request names s
RequestStepOn(s) ==
    \/ s \in DOMAIN store' /\ ConcCheck(s, store'[s].plan, store'[s].proposal)
    \/ ConcRollback(s)
    \/ ConcReset(s)
    \/ \E w \in Workers : req[w].pc = "idle" /\ req'[w].pc = "read" /\ req'[w].sid = s
    \/ \E w \in Workers : req[w].pc # "idle" /\ req[w].sid = s /\ req'[w].pc # req[w].pc

\* C23: a step of any request on one session leaves the plan, original_plan,
\* proposal and history of every other session as they were, whatever other
\* requests are in progress.
C23_OtherSessionsUntouched ==
    [][ \A s \in CrossSessionIds, t \in CrossSessionIds :
          (RequestStepOn(s) /\ t # s) => store'[t] = store[t] ]_vars

\* both sessions have been changed by requests, and a request on s2 is in
\* progress while s1 holds a plan installed by an apply
C23_Witness ==
    /\ DOMAIN store = CrossSessionIds
    /\ store["s1"].history # <<>>
    /\ \E w \in Workers : req[w].pc = "computed" /\ req[w].sid = "s2"

----------------------------------------------------------------------------
(* Properties of repeated application *)

\* the itinerary given to the first call is numbered 1..N in display order
NumberedInput == \A p \in 1..Len(fn.plan.itinerary) : fn.plan.itinerary[p].index = p

\* C24: for an itinerary numbered 1..N, applying the same choices with the
\* same proposal to the result of a first apply returns that result again.
C24_ApplyIdempotentWhenNumbered ==
    (fn.pc = "again" /\ NumberedInput) => fn.again = fn.new_plan

\* a numbered two-item itinerary whose second item, a festival, was replaced
\* by the first call and is replaced by the same alternative by the second
C24_Witness ==
    /\ fn.pc = "again" /\ NumberedInput
    /\ Len(fn.plan.itinerary) = 2
    /\ fn.plan.itinerary[2].type = "festival"
    /\ ValidChoiceFor(2)
    /\ fn.new_plan.itinerary[2].title = "a1"
    /\ fn.again.itinerary[2].title = "a1" /\ fn.again.itinerary[2].type = "place"

\* C26: an apply-choice or llm-apply request never installs its plan after a
\* check or a reset replaced the plan and the proposal it was computed from.
C26_NoInstallAfterReplacement ==
    [][ \A w \in Workers :
          (req[w].pc = "computed" /\ req'[w].pc = "idle") => ~req[w].replaced ]_vars

\* C27: whatever the interleaving of check requests for a session id, the
\* session is created once: the step that creates it records the submitted
\* itinerary as plan and original_plan with an empty history, and every later
\* check replaces plan and proposal only.
C27_SessionCreatedOnce ==
    [][ \A s \in SessionIds :
          /\ (~Exists(s) /\ s \in DOMAIN store') =>
                 /\ store'[s].original_plan = store'[s].plan
                 /\ store'[s].history = <<>>
          /\ Exists(s) =>
                 /\ s \in DOMAIN store'
                 /\ store'[s].original_plan = store[s].original_plan
          /\ (Exists(s) /\ ConcCheck(s, store'[s].plan, store'[s].proposal)) =>
                 store'[s].history = store[s].history ]_vars

\* two check requests for one session id were served and nothing else: the
\* session holds the itinerary of the first as original_plan and that of the
\* second, of another length, as plan
C27_Witness ==
    /\ nreq = 2
    /\ \A w \in Workers : req[w].pc = "idle"
    /\ \E s \in DOMAIN store :
          /\ Len(store[s].plan.itinerary) # Len(store[s].original_plan.itinerary)
          /\ store[s].history = <<>>

----------------------------------------------------------------------------
(* Properties of llm-apply *)

\* C28: an llm-apply request answered with an updated plan pushes exactly one
\* history entry, however many selections the oracle returned, and a rollback
\* served next installs the plan the session held before the request; an
\* llm-apply request on a proposal without candidates, or for which the
\* oracle returns no selection, leaves plan, history and proposal unchanged.
C28_LlmApplyIsOneUndoStep ==
    [][ \A s \in SessionIds :
          /\ (Exists(s) /\ last'.op = "llm_apply" /\ last'.sid = s /\ last'.status = "ok") =>
                 Len(store'[s].history) = Len(store[s].history) + 1
          /\ (Exists(s) /\ last'.op = "llm_apply" /\ last'.sid = s
                 /\ last'.status \in {"ok_no_candidates", "ok_no_selection"}) =>
                 store'[s] = store[s]
          /\ (Exists(s) /\ last.op = "llm_apply" /\ last.sid = s /\ last.status = "ok"
                 /\ RainRollback(s)) =>
                 store'[s].plan = last.before ]_vars

----------------------------------------------------------------------------
(* Properties of check on an existing session *)

\* C29: a check on an existing session leaves the session's history
\* unchanged, and a rollback served right after that check installs the most
\* recent entry of that history, a plan recorded before the check, and pops it.
C29_CheckKeepsHistory ==
    [][ \A s \in SessionIds :
          /\ (Exists(s) /\ last'.op = "check" /\ last'.sid = s) =>
                 store'[s].history = store[s].history
          /\ (Exists(s) /\ last.op = "check" /\ last.sid = s
                 /\ last'.op = "rollback" /\ last'.sid = s /\ last'.status = "ok") =>
                 /\ store'[s].plan = Last(store[s].history)
                 /\ store'[s].history = Front(store[s].history) ]_vars

\* A check has been recorded on a session that has a history entry differing
\* from the itinerary the check submitted, so a rollback can be served next.
C29_Witness ==
    \E s \in DOMAIN store :
        /\ last.op = "check" /\ last.sid = s
        /\ store[s].history # <<>>
        /\ Last(store[s].history) # store[s].plan

----------------------------------------------------------------------------
(* One session after a rainy-day check of an itinerary numbered 1..N with   *)
(* one stop more than MaxItems, so that two stops after the protected first *)
(* one can both be candidates; then apply-choice, llm-apply and rollback    *)
(* requests made with the proposal of that check.                           *)

\* the itinerary of k stops with pairwise distinct titles and index values 1..k
NumberedItinerary(k) == [i \in 1..k |-> [index |-> i, title |-> ItemTitle(i)]]

\* rain_check creating the session: fetch_indoor_alternatives is called once
\* per candidate with avoid_titles = the titles of the submitted itinerary,
\* so every list is drawn from the venues not titled as an itinerary item
TripInit ==
    /\ \E n \in 2..(MaxItems + 1) :
         \E flagged \in SUBSET (2..n), alts \in [2..(MaxItems + 1) -> AltLists] :
            LET plan == [itinerary |-> NumberedItinerary(n), totals |-> "T"]
            IN  /\ store = CheckRecord(<<>>, SessionOrder[1], plan,
                                       BuildProposal(plan, flagged, alts))
                /\ first_plan = Put(<<>>, SessionOrder[1], plan)
    /\ pid = Put(<<>>, SessionOrder[1], 0)
    /\ undo = Put(<<>>, SessionOrder[1], <<>>)
    /\ since_reset = Put(<<>>, SessionOrder[1], FALSE)
    /\ req = [w \in Workers |-> Idle]
    /\ last = [op |-> "check", sid |-> SessionOrder[1], status |-> "ok", before |-> None]
    /\ nreq = 0
    /\ fn = None

TripNext ==
    \/ \E ci \in ArgRange, ai \in ArgRange : RainApplyChoice(SessionOrder[1], ci, ai)
    \/ \E sels \in SeqsUpTo([candidate_index : 0..(MaxItems - 1),
                              alternative_index : 0..(MaxAlts - 1)], MaxSel),
          key_set \in BOOLEAN : RainLlmApply(SessionOrder[1], sels, key_set)
    \/ RainRollback(SessionOrder[1])

TripSpec == TripInit /\ [][TripNext]_vars

----------------------------------------------------------------------------
(* Properties of the titles of a plan *)

DistinctTitles(it) ==
    \A i \in 1..Len(it), j \in 1..Len(it) : it[i].title = it[j].title => i = j

\* C30: when the itinerary submitted to the check had pairwise distinct
\* titles, the session's plan has pairwise distinct titles after every
\* sequence of apply-choice and llm-apply requests made with that check's
\* proposal.
C30_TitlesStayDistinct ==
    \A s \in DOMAIN store :
        DistinctTitles(first_plan[s].itinerary) => DistinctTitles(store[s].plan.itinerary)

====
